---- MODULE Spec2Model ----
(***************************************************************************)
(* A model of DocumentDataExtractor.from_bytes                             *)
(* (src/AIDocumentPipeline/documents/services/document_data_extractor.py). *)
(* One behaviour is one call of from_bytes: the caller's options and the   *)
(* document are chosen in Init, and the answers of the collaborators the   *)
(* call talks to (the layout service, the rasteriser, the extraction model,*)
(* the two confidence evaluators and the merger) are chosen when the call  *)
(* reaches them.  `calls` records every collaborator call in order.        *)
(***************************************************************************)
EXTENDS Integers, Sequences, FiniteSets, TLC

VARIABLES
    options,            \* DocumentDataExtractorOptions of the call
    document,           \* document_bytes, as the number of pages it holds
    pc,                 \* position of the call inside from_bytes
    di_client,          \* local: the layout client, or None
    page_range,         \* local: the "start-end" string, or None
    result,             \* local: the AnalyzeResult of the layout service
    document_markdown,  \* local: result.content, or None
    image_uris,         \* local: the data URIs of the rendered pages
    response_obj,       \* local: completion.choices[0].message.parsed
    response_obj_dict,  \* local: response_obj.model_dump()
    confidence_openai,  \* local: the LLM evaluator's map
    confidence_di,      \* local: the layout evaluator's map
    confidence,         \* local: the final map
    returned,           \* the ExtractionConfidenceResult handed back, or None
    error,              \* the exception that left from_bytes, or None
    calls               \* the collaborator calls made so far, in order

vars == <<options, document, pc, di_client, page_range, result,
          document_markdown, image_uris, response_obj, response_obj_dict,
          confidence_openai, confidence_di, confidence, returned, error, calls>>

(***************************************************************************)
(* Bounds of the model.                                                    *)
(***************************************************************************)
MaxPages == 5
PageMargin == 1

(***************************************************************************)
(* Python values.  An Optional is None or Some(v).                         *)
(***************************************************************************)
None == << >>
Some(v) == <<v>>
Val(o) == o[1]

\* Python truthiness of an Optional[int]: None and 0 are false.
TruthyInt(o) == o # None /\ Val(o) # 0
\* Python truthiness of an Optional[str]: None and "" are false.
TruthyStr(o) == o # None /\ Val(o) # ""

Max(a, b) == IF a >= b THEN a ELSE b
Min(a, b) == IF a <= b THEN a ELSE b

\* A slice bound of a list of length n: a negative bound counts from the end,
\* and the bound is clamped to 0..n.
SliceIndex(i, n) == IF i < 0 THEN Max(i + n, 0) ELSE Min(i, n)

\* seq[lo:hi] of Python, lo and hi 0-based.
PySlice(seq, lo, hi) ==
    LET a == SliceIndex(lo, Len(seq))
        b == SliceIndex(hi, Len(seq))
    IN  IF a < b THEN [i \in 1..(b - a) |-> seq[a + i]] ELSE << >>

(***************************************************************************)
(* Program constants.                                                      *)
(***************************************************************************)
SystemPrompt == "You are an AI assistant that extracts data from documents."
DefaultMaxTokens == 4096
DefaultTemperature == "0.1"
DefaultTopP == "0.1"
ParseMaxTokens == 4096
ParseTemperature == "0.1"
ParseTopP == "0.1"
OVERALL_CONFIDENCE_KEY == "_overall"

(***************************************************************************)
(* The inputs of a call.                                                   *)
(***************************************************************************)
PageValues == {None} \cup {Some(p) : p \in (0 - PageMargin)..(MaxPages + PageMargin)}
Endpoints == {None, Some(""), Some("https://layout.example")}
Prompts == {"Extract the invoice.", "Extract the receipt."}
Decodings == {<<DefaultMaxTokens, DefaultTemperature, DefaultTopP>>,
              <<1024, "0.7", "0.9">>,
              <<DefaultMaxTokens, "0.7", DefaultTopP>>}

\* DocumentDataExtractorOptions.__init__
DocumentDataExtractorOptions(extraction_prompt, page_start, page_end, aiservices_endpoint, max_tokens, temperature, top_p) ==
    [system_prompt       |-> SystemPrompt,
     extraction_prompt   |-> extraction_prompt,
     page_start          |-> page_start,
     page_end            |-> page_end,
     aiservices_endpoint |-> aiservices_endpoint,
     max_tokens          |-> max_tokens,
     temperature         |-> temperature,
     top_p               |-> top_p]

OptionsSet ==
    {DocumentDataExtractorOptions(p, s, e, a, d[1], d[2], d[3]) :
        p \in Prompts, s \in PageValues, e \in PageValues,
        a \in Endpoints, d \in Decodings}

(***************************************************************************)
(* The answers of the collaborators.                                       *)
(***************************************************************************)
\* result.content of the layout service: absent, empty, or markdown.
LayoutContents == {None, Some(""), Some("# Invoice 42")}
\* message.parsed of the model: absent, or an instance of the schema.
ParsedObjects == {None, Some([total |-> "100.00"])}
\* What an evaluator or the merger may hand back: a map with or without the
\* overall key.
ConfidenceMaps ==
    { (OVERALL_CONFIDENCE_KEY :> 90) @@ ("total" :> 80),
      (OVERALL_CONFIDENCE_KEY :> 40),
      ("total" :> 40) }

(***************************************************************************)
(* Helpers of from_bytes.                                                  *)
(***************************************************************************)
\* The record of one collaborator call: its name, arguments and answer
\* (None when the call raised).
Call(op, args, out) == [op |-> op, args |-> args, out |-> out]

\* A plausible slip: only None counts as "no endpoint", the empty string does not.
get_document_intelligence_client_NoneOnly(opts) ==
    IF opts.aiservices_endpoint = None
    THEN None
    ELSE Some([endpoint |-> Val(opts.aiservices_endpoint)])

\* __get_document_intelligence_client__: no client without an endpoint.
get_document_intelligence_client(opts) ==
    IF ~TruthyStr(opts.aiservices_endpoint)
    THEN None
    ELSE Some([endpoint |-> Val(opts.aiservices_endpoint)])

\* from_bytes, the page range handed to the layout service.
PageRange(opts) ==
    IF TruthyInt(opts.page_start) /\ TruthyInt(opts.page_end)
    THEN Some(ToString(Val(opts.page_start)) \o "-" \o ToString(Val(opts.page_end)))
    ELSE None

\* convert_from_bytes: the pages of the document, in order.
convert_from_bytes(doc) == [i \in 1..doc |-> i]

\* A plausible slip: the slice starts at page_start instead of page_start - 1.
SelectedPagesOffByOne(doc, page_start, page_end) ==
    IF TruthyInt(page_start) /\ TruthyInt(page_end)
    THEN PySlice(convert_from_bytes(doc), Val(page_start), Val(page_end))
    ELSE convert_from_bytes(doc)

\* The pages __get_document_image_uris__ keeps.
SelectedPages(doc, page_start, page_end) ==
    IF TruthyInt(page_start) /\ TruthyInt(page_end)
    THEN PySlice(convert_from_bytes(doc), Val(page_start) - 1, Val(page_end))
    ELSE convert_from_bytes(doc)

\* The data URI of a rendered page.
ImageUri(page) == "data:image/png;base64," \o ToString(page)

\* __get_document_image_uris__
get_document_image_uris(doc, page_start, page_end) ==
    LET pages == SelectedPages(doc, page_start, page_end)
    IN  [i \in 1..Len(pages) |-> ImageUri(pages[i])]

TextPart(text) == [type |-> "text", text |-> text]
ImagePart(uri) == [type |-> "image_url", image_url |-> [url |-> uri]]

\* A plausible slip: the layout text is appended after the images.
UserContentLayoutLast(opts, markdown, uris) ==
    <<TextPart(opts.extraction_prompt)>>
    \o [i \in 1..Len(uris) |-> ImagePart(uris[i])]
    \o (IF TruthyStr(markdown) THEN <<TextPart(Val(markdown))>> ELSE << >>)

\* from_bytes, the content list of the user message.
UserContent(opts, markdown, uris) ==
    <<TextPart(opts.extraction_prompt)>>
    \o (IF TruthyStr(markdown) THEN <<TextPart(Val(markdown))>> ELSE << >>)
    \o [i \in 1..Len(uris) |-> ImagePart(uris[i])]

\* from_bytes, the request of client.beta.chat.completions.parse.
ParseRequest(opts, user_content) ==
    [messages    |-> << [role |-> "system", content |-> opts.system_prompt],
                        [role |-> "user", content |-> user_content] >>,
     max_tokens  |-> ParseMaxTokens,
     temperature |-> ParseTemperature,
     top_p       |-> ParseTopP,
     logprobs    |-> TRUE]

\* The fields of a schema object as a dictionary.
Fields(obj) == [f \in DOMAIN obj |-> obj[f]]

\* A plausible slip: an absent object dumps to an empty dictionary.
ModelDumpLenient(obj) ==
    IF obj = None
    THEN [raised |-> FALSE, value |-> Some(Fields(<< >>))]
    ELSE [raised |-> FALSE, value |-> Some(Fields(Val(obj)))]

\* response_obj.model_dump(): raises on an absent object (None has no
\* model_dump), and is the dictionary of the object's fields otherwise.
ModelDump(obj) ==
    IF obj = None
    THEN [raised |-> TRUE, value |-> None]
    ELSE [raised |-> FALSE, value |-> Some(Fields(Val(obj)))]

\* confidence[OVERALL_CONFIDENCE_KEY] raises on a map without the key.
OverallLookupRaises(conf) == OVERALL_CONFIDENCE_KEY \notin DOMAIN conf

\* A plausible slip: the overall score is read from a field's entry.
ExtractionConfidenceResultWrongKey(data, conf) ==
    [data               |-> data,
     confidence_scores  |-> conf,
     overall_confidence |-> IF "total" \in DOMAIN conf
                            THEN conf["total"]
                            ELSE conf[OVERALL_CONFIDENCE_KEY]]

\* The value from_bytes returns.
ExtractionConfidenceResult(data, conf) ==
    [data               |-> data,
     confidence_scores  |-> conf,
     overall_confidence |-> conf[OVERALL_CONFIDENCE_KEY]]

(***************************************************************************)
(* The call.                                                               *)
(***************************************************************************)
Init ==
    /\ options \in OptionsSet
    /\ document \in 1..MaxPages
    /\ pc = "start"
    /\ di_client = None
    /\ page_range = None
    /\ result = None
    /\ document_markdown = None
    /\ image_uris = << >>
    /\ response_obj = None
    /\ response_obj_dict = None
    /\ confidence_openai = None
    /\ confidence_di = None
    /\ confidence = None
    /\ returned = None
    /\ error = None
    /\ calls = << >>

Raise(exception) ==
    /\ pc' = "error"
    /\ error' = Some(exception)

\* The clients and the page range.
Start ==
    /\ pc = "start"
    /\ di_client' = get_document_intelligence_client(options)
    /\ page_range' = PageRange(options)
    /\ pc' = "analyze"
    /\ UNCHANGED <<options, document, result, document_markdown, image_uris,
                   response_obj, response_obj_dict, confidence_openai,
                   confidence_di, confidence, returned, error, calls>>

\* The layout service answers.
AnalyzeLayout ==
    /\ pc = "analyze"
    /\ di_client # None
    /\ \E content \in LayoutContents :
          /\ result' = Some([content |-> content, pages |-> page_range])
          /\ document_markdown' = content
          /\ calls' = Append(calls,
                Call("begin_analyze_document", <<document, page_range>>,
                     Some([content |-> content, pages |-> page_range])))
    /\ pc' = "render"
    /\ UNCHANGED <<options, document, di_client, page_range, image_uris,
                   response_obj, response_obj_dict, confidence_openai,
                   confidence_di, confidence, returned, error>>

\* A plausible variant: the failure is swallowed and the call goes on
\* without a layout result.
AnalyzeLayoutFailsDegraded ==
    /\ pc = "analyze"
    /\ di_client # None
    /\ calls' = Append(calls,
          Call("begin_analyze_document", <<document, page_range>>, None))
    /\ document_markdown' = None
    /\ pc' = "render"
    /\ UNCHANGED <<options, document, di_client, page_range, result, image_uris,
                   response_obj, response_obj_dict, confidence_openai,
                   confidence_di, confidence, returned, error>>

\* The layout service fails, or times out: the exception leaves from_bytes.
AnalyzeLayoutFails ==
    /\ pc = "analyze"
    /\ di_client # None
    /\ calls' = Append(calls,
          Call("begin_analyze_document", <<document, page_range>>, None))
    /\ Raise("HttpResponseError")
    /\ UNCHANGED <<options, document, di_client, page_range, result,
                   document_markdown, image_uris, response_obj,
                   response_obj_dict, confidence_openai, confidence_di,
                   confidence, returned>>

\* No layout client: no layout text.
SkipLayout ==
    /\ pc = "analyze"
    /\ di_client = None
    /\ document_markdown' = None
    /\ pc' = "render"
    /\ UNCHANGED <<options, document, di_client, page_range, result, image_uris,
                   response_obj, response_obj_dict, confidence_openai,
                   confidence_di, confidence, returned, error, calls>>

\* The pages are rendered and sliced.
Render ==
    /\ pc = "render"
    /\ image_uris' = get_document_image_uris(document, options.page_start,
                                             options.page_end)
    /\ calls' = Append(calls,
          Call("convert_from_bytes", <<document>>,
               Some(SelectedPages(document, options.page_start, options.page_end))))
    /\ pc' = "parse"
    /\ UNCHANGED <<options, document, di_client, page_range, result,
                   document_markdown, response_obj, response_obj_dict,
                   confidence_openai, confidence_di, confidence, returned, error>>

\* The rasteriser rejects the document bytes (or poppler is missing).
RenderFails ==
    /\ pc = "render"
    /\ calls' = Append(calls, Call("convert_from_bytes", <<document>>, None))
    /\ Raise("PDFPageCountError")
    /\ UNCHANGED <<options, document, di_client, page_range, result,
                   document_markdown, image_uris, response_obj,
                   response_obj_dict, confidence_openai, confidence_di,
                   confidence, returned>>

\* The request is built and the model answers with a parsed object or none.
Parse ==
    /\ pc = "parse"
    /\ \E parsed \in ParsedObjects :
          /\ calls' = Append(calls,
                Call("parse",
                     <<ParseRequest(options,
                                    UserContent(options, document_markdown, image_uris))>>,
                     Some([parsed |-> parsed])))
          /\ response_obj' = parsed
          /\ IF ModelDump(parsed).raised
             THEN /\ Raise("AttributeError")
                  /\ UNCHANGED response_obj_dict
             ELSE /\ response_obj_dict' = ModelDump(parsed).value
                  /\ pc' = "evaluate_openai"
                  /\ UNCHANGED error
    /\ UNCHANGED <<options, document, di_client, page_range, result,
                   document_markdown, image_uris, confidence_openai,
                   confidence_di, confidence, returned>>

\* The parse call raises: the output does not validate, or the service fails.
ParseFails ==
    /\ pc = "parse"
    /\ calls' = Append(calls,
          Call("parse",
               <<ParseRequest(options,
                              UserContent(options, document_markdown, image_uris))>>,
               None))
    /\ Raise("ValidationError")
    /\ UNCHANGED <<options, document, di_client, page_range, result,
                   document_markdown, image_uris, response_obj,
                   response_obj_dict, confidence_openai, confidence_di,
                   confidence, returned>>

\* The LLM confidence evaluator.
EvaluateOpenAI ==
    /\ pc = "evaluate_openai"
    /\ \E m \in ConfidenceMaps :
          /\ confidence_openai' = Some(m)
          /\ calls' = Append(calls,
                Call("evaluate_confidence_openai", <<response_obj_dict>>, Some(m)))
    /\ pc' = "evaluate_di"
    /\ UNCHANGED <<options, document, di_client, page_range, result,
                   document_markdown, image_uris, response_obj,
                   response_obj_dict, confidence_di, confidence, returned, error>>

\* A plausible slip: the layout evaluator is guarded by the layout text
\* instead of the client, and is skipped when the text is empty.
EvaluateDIOnMarkdown ==
    /\ pc = "evaluate_di"
    /\ di_client # None
    /\ IF TruthyStr(document_markdown)
       THEN \E m \in ConfidenceMaps :
               /\ confidence_di' = Some(m)
               /\ calls' = Append(calls,
                     Call("evaluate_confidence_di", <<response_obj_dict, result>>,
                          Some(m)))
       ELSE UNCHANGED <<confidence_di, calls>>
    /\ pc' = "merge"
    /\ UNCHANGED <<options, document, di_client, page_range, result,
                   document_markdown, image_uris, response_obj,
                   response_obj_dict, confidence_openai, confidence, returned, error>>

\* The layout confidence evaluator, on the layout path.
EvaluateDI ==
    /\ pc = "evaluate_di"
    /\ di_client # None
    /\ \E m \in ConfidenceMaps :
          /\ confidence_di' = Some(m)
          /\ calls' = Append(calls,
                Call("evaluate_confidence_di", <<response_obj_dict, result>>, Some(m)))
    /\ pc' = "merge"
    /\ UNCHANGED <<options, document, di_client, page_range, result,
                   document_markdown, image_uris, response_obj,
                   response_obj_dict, confidence_openai, confidence, returned, error>>

\* The merger, on the layout path.
Merge ==
    /\ pc = "merge"
    /\ \E m \in ConfidenceMaps :
          /\ confidence' = Some(m)
          /\ calls' = Append(calls,
                Call("merge_confidence_values",
                     <<confidence_di, confidence_openai>>, Some(m)))
    /\ pc' = "return"
    /\ UNCHANGED <<options, document, di_client, page_range, result,
                   document_markdown, image_uris, response_obj,
                   response_obj_dict, confidence_openai, confidence_di,
                   returned, error>>

\* Without a layout client the LLM map is the final map.
UseOpenAIOnly ==
    /\ pc = "evaluate_di"
    /\ di_client = None
    /\ confidence' = confidence_openai
    /\ pc' = "return"
    /\ UNCHANGED <<options, document, di_client, page_range, result,
                   document_markdown, image_uris, response_obj,
                   response_obj_dict, confidence_openai, confidence_di,
                   returned, error, calls>>

\* The result is built; the lookup of the overall key raises when it is absent.
Return ==
    /\ pc = "return"
    /\ IF OverallLookupRaises(Val(confidence))
       THEN /\ Raise("KeyError")
            /\ UNCHANGED returned
       ELSE /\ returned' = Some(ExtractionConfidenceResult(response_obj, Val(confidence)))
            /\ pc' = "done"
            /\ UNCHANGED error
    /\ UNCHANGED <<options, document, di_client, page_range, result,
                   document_markdown, image_uris, response_obj,
                   response_obj_dict, confidence_openai, confidence_di,
                   confidence, calls>>

Next ==
    \/ Start
    \/ AnalyzeLayout
    \/ AnalyzeLayoutFails
    \/ SkipLayout
    \/ Render
    \/ RenderFails
    \/ Parse
    \/ ParseFails
    \/ EvaluateOpenAI
    \/ EvaluateDI
    \/ Merge
    \/ UseOpenAIOnly
    \/ Return

Spec == Init /\ [][Next]_vars

(***************************************************************************)
(* What the claims speak about, read off the recorded calls.               *)
(***************************************************************************)
\* The names of the calls made, in order; whether, where and how a collaborator
\* was called.
Ops == [i \in DOMAIN calls |-> calls[i].op]
Called(op) == \E i \in DOMAIN calls : calls[i].op = op
CallsOf(op) == {i \in DOMAIN calls : calls[i].op = op}
TheCall(op) == calls[CHOOSE i \in DOMAIN calls : calls[i].op = op]

EndpointConfigured == TruthyStr(options.aiservices_endpoint)
BothPagesSet == options.page_start # None /\ options.page_end # None
ExactlyOnePageSet == (options.page_start = None) # (options.page_end = None)

\* The request the model was invoked with, and its user content.
Request == TheCall("parse").args[1]
Content == Request.messages[2].content
IsImage(part) == part.type = "image_url"
IsText(part) == part.type = "text"
ImageParts == SelectSeq(Content, IsImage)
TextParts == SelectSeq(Content, IsText)

\* The pages start..end as a list (empty when start > end).
PagesFromTo(start, end) == [i \in 1..(end - start + 1) |-> start + i - 1]
ImagesOf(pages) == [i \in 1..Len(pages) |-> ImagePart(ImageUri(pages[i]))]

\* The layout service was called and answered / failed.
LayoutAnswered ==
    Called("begin_analyze_document") /\ TheCall("begin_analyze_document").out # None
LayoutFailed ==
    Called("begin_analyze_document") /\ TheCall("begin_analyze_document").out = None
LayoutText == Val(TheCall("begin_analyze_document").out).content
LayoutTextAvailable == LayoutAnswered /\ TruthyStr(LayoutText)
\* The pages the renderer produced.
Rendered == Called("convert_from_bytes") /\ TheCall("convert_from_bytes").out # None
RenderedPages == Val(TheCall("convert_from_bytes").out)
\* The model output could not be validated: the call raised, or parsed is absent.
OutputInvalid ==
    /\ Called("parse")
    /\ \/ TheCall("parse").out = None
       \/ Val(TheCall("parse").out).parsed = None

(***************************************************************************)
(* C1: every request that reaches the model is one system message with the *)
(* fixed preamble followed by one user message whose content is the        *)
(* caller's extraction prompt, then the layout markdown if and only if     *)
(* layout text is available, then one image part per rendered page in      *)
(* ascending page order, and nothing else.                                 *)
(***************************************************************************)
C1_RequestShape ==
    Called("parse") =>
        LET k == IF LayoutTextAvailable THEN 2 ELSE 1
        IN  /\ Len(Request.messages) = 2
            /\ Request.messages[1] =
                  [role |-> "system",
                   content |-> "You are an AI assistant that extracts data from documents."]
            /\ Request.messages[2].role = "user"
            /\ Len(Content) = k + Len(RenderedPages)
            /\ Content[1] = TextPart(options.extraction_prompt)
            /\ LayoutTextAvailable => Content[2] = TextPart(Val(LayoutText))
            /\ \A i \in 1..Len(RenderedPages) :
                  Content[k + i] = ImagePart(ImageUri(RenderedPages[i]))
            /\ \A i, j \in 1..Len(RenderedPages) :
                  i < j => RenderedPages[i] < RenderedPages[j]

C1_Witness ==
    /\ Called("parse")
    /\ LayoutTextAvailable
    /\ Len(RenderedPages) >= 2

(***************************************************************************)
(* C2: without a layout endpoint (None or empty) the layout service, the   *)
(* layout evaluator and the merger are never called, the prompt holds no   *)
(* layout text, and the returned confidence_scores is exactly the map of   *)
(* the LLM evaluator.                                                      *)
(***************************************************************************)
C2_NoEndpointLLMOnly ==
    ~EndpointConfigured =>
        /\ ~Called("begin_analyze_document")
        /\ ~Called("evaluate_confidence_di")
        /\ ~Called("merge_confidence_values")
        /\ Called("parse") => TextParts = <<TextPart(options.extraction_prompt)>>
        /\ returned # None =>
              Val(returned).confidence_scores =
                  Val(TheCall("evaluate_confidence_openai").out)

C2_Witness ==
    /\ options.aiservices_endpoint = Some("")
    /\ returned # None

(***************************************************************************)
(* C3: with 1 <= page_start <= page_end <= n on an n-page document, the    *)
(* images passed to the model are exactly pages page_start..page_end, in   *)
(* ascending order, none outside the range and none repeated.              *)
(***************************************************************************)
C3_ValidRangeImages ==
    ( /\ BothPagesSet
      /\ 1 <= Val(options.page_start)
      /\ Val(options.page_start) <= Val(options.page_end)
      /\ Val(options.page_end) <= document
      /\ Called("parse") )
    => ImageParts = ImagesOf(PagesFromTo(Val(options.page_start), Val(options.page_end)))

C3_Witness ==
    /\ document = 5
    /\ options.page_start = Some(2)
    /\ options.page_end = Some(3)
    /\ Called("parse")
    /\ ImageParts = <<ImagePart(ImageUri(2)), ImagePart(ImageUri(3))>>

(***************************************************************************)
(* C4: with exactly one of page_start and page_end set, every page is      *)
(* rendered and passed to the model and the layout analyzer is called with *)
(* no page range; and whenever both are set, the layout analyzer receives  *)
(* "<page_start>-<page_end>", the same inclusive range the renderer slices *)
(* to.                                                                     *)
(***************************************************************************)
C4_BothOrNeither ==
    /\ ExactlyOnePageSet =>
          /\ Rendered => RenderedPages = convert_from_bytes(document)
          /\ Called("parse") => ImageParts = ImagesOf(convert_from_bytes(document))
          /\ Called("begin_analyze_document") =>
                TheCall("begin_analyze_document").args[2] = None
    /\ BothPagesSet =>
          /\ Called("begin_analyze_document") =>
                TheCall("begin_analyze_document").args[2] =
                    Some(ToString(Val(options.page_start)) \o "-"
                         \o ToString(Val(options.page_end)))
          /\ Rendered =>
                RenderedPages =
                    PagesFromTo(Val(options.page_start), Val(options.page_end))

(***************************************************************************)
(* C5: with both page_start and page_end given and page_start > page_end   *)
(* or an index outside 1..n, rendering fails with a range error: the model *)
(* is never invoked and no result is returned.                             *)
(***************************************************************************)
InvalidRange ==
    /\ BothPagesSet
    /\ \/ Val(options.page_start) > Val(options.page_end)
       \/ Val(options.page_start) \notin 1..document
       \/ Val(options.page_end) \notin 1..document

C5_InvalidRangeFails ==
    InvalidRange =>
        /\ ~Rendered
        /\ ~Called("parse")
        /\ returned = None

(***************************************************************************)
(* C6: the decoding parameters of the model request are the caller's       *)
(* option values max_tokens, temperature and top_p.                        *)
(***************************************************************************)
C6_DecodingFromOptions ==
    Called("parse") =>
        /\ Request.max_tokens = options.max_tokens
        /\ Request.temperature = options.temperature
        /\ Request.top_p = options.top_p

(***************************************************************************)
(* C7: when the model output cannot be validated (the parse call raises,   *)
(* or the parsed object is absent), from_bytes ends in an error, returns   *)
(* no result, calls neither evaluator nor the merger, and calls the model  *)
(* once only.                                                              *)
(***************************************************************************)
C7_InvalidOutputFails ==
    OutputInvalid =>
        /\ pc = "error"
        /\ error # None
        /\ returned = None
        /\ ~Called("evaluate_confidence_openai")
        /\ ~Called("evaluate_confidence_di")
        /\ ~Called("merge_confidence_values")
        /\ Cardinality(CallsOf("parse")) = 1

C7_Witness ==
    /\ Called("parse")
    /\ TheCall("parse").out # None
    /\ Val(TheCall("parse").out).parsed = None
    /\ pc = "error"

(***************************************************************************)
(* C8 as stated: when the layout analysis call fails, from_bytes does not  *)
(* abort; it still renders the pages, invokes the model without layout     *)
(* text and returns the LLM-only map.                                      *)
(***************************************************************************)
C8_LayoutFailureDegrades ==
    LayoutFailed =>
        /\ ~(pc = "error" /\ ~Called("convert_from_bytes"))
        /\ returned # None =>
              Val(returned).confidence_scores =
                  Val(TheCall("evaluate_confidence_openai").out)

(***************************************************************************)
(* C8 as amended: when the layout analysis call fails, from_bytes aborts   *)
(* with that error: no page is rendered, the model is not invoked, no      *)
(* evaluator runs and no result is returned.                               *)
(***************************************************************************)
C8_LayoutFailureAborts ==
    LayoutFailed =>
        /\ pc = "error"
        /\ error = Some("HttpResponseError")
        /\ ~Called("convert_from_bytes")
        /\ ~Called("parse")
        /\ ~Called("evaluate_confidence_openai")
        /\ returned = None

C8_Witness ==
    /\ EndpointConfigured
    /\ LayoutFailed

(***************************************************************************)
(* C9: a call with a layout endpoint that returns a result has made, in    *)
(* this order and once each: the layout analysis, the rendering, the model *)
(* call, the LLM evaluator, the layout evaluator (on the same dictionary   *)
(* and on the layout result of this call) and the merger, whose output is  *)
(* the returned confidence_scores; the layout evaluator runs only after a  *)
(* layout result exists, also when the layout text is empty.               *)
(***************************************************************************)
C9_LayoutPathOrder ==
    /\ (EndpointConfigured /\ returned # None) =>
          /\ Ops = << "begin_analyze_document", "convert_from_bytes", "parse",
                      "evaluate_confidence_openai", "evaluate_confidence_di",
                      "merge_confidence_values" >>
          /\ LayoutAnswered
          /\ TheCall("evaluate_confidence_openai").args[1] =
                ModelDump(Val(TheCall("parse").out).parsed).value
          /\ TheCall("evaluate_confidence_di").args =
                << TheCall("evaluate_confidence_openai").args[1],
                   TheCall("begin_analyze_document").out >>
          /\ TheCall("merge_confidence_values").args =
                << TheCall("evaluate_confidence_di").out,
                   TheCall("evaluate_confidence_openai").out >>
          /\ Val(returned).confidence_scores =
                Val(TheCall("merge_confidence_values").out)
    /\ Called("evaluate_confidence_di") => LayoutAnswered

C9_Witness ==
    /\ EndpointConfigured
    /\ returned # None
    /\ LayoutAnswered
    /\ LayoutText = Some("")
    /\ Len(TextParts) = 1

(***************************************************************************)
(* C10: every returned result has a confidence_scores map with the overall *)
(* key, an overall_confidence equal to that entry and a data object that   *)
(* is present; when the final map lacks the overall key nothing is         *)
(* returned.                                                               *)
(***************************************************************************)
C10_ResultWellFormed ==
    /\ returned # None =>
          /\ OVERALL_CONFIDENCE_KEY \in DOMAIN Val(returned).confidence_scores
          /\ Val(returned).overall_confidence =
                Val(returned).confidence_scores[OVERALL_CONFIDENCE_KEY]
          /\ Val(returned).data # None
          /\ Val(returned).confidence_scores = Val(confidence)
    /\ (confidence # None /\ OVERALL_CONFIDENCE_KEY \notin DOMAIN Val(confidence)) =>
          returned = None

C10_Witness ==
    /\ returned # None
    /\ EndpointConfigured
    /\ DOMAIN Val(returned).confidence_scores = {OVERALL_CONFIDENCE_KEY, "total"}

\* The other case of C10: the final map has no overall key and the call failed.
C10_WitnessNoKey ==
    /\ confidence # None
    /\ OVERALL_CONFIDENCE_KEY \notin DOMAIN Val(confidence)
    /\ pc = "error"

====
